---- MODULE Spec2Model ----
(***************************************************************************)
(* Model of the logging-state server of src/main.rs: one LoggerState       *)
(* record behind a Mutex (type Db), and the three handlers start, stop     *)
(* and status, each run statement by statement by concurrent request       *)
(* threads.                                                                *)
(***************************************************************************)
EXTENDS Integers, Sequences, FiniteSets, TLC

(* ---------------------------------------------------------------- bounds *)

\* number of request threads serving handlers concurrently
NumHandlers == 2

\* number of distinct request paths the clients send
NumPaths == 2

\* width of call_count (u32 in the source, scaled down)
CountBits == 2

\* calls accepted beyond the first wrap of call_count
ExtraCalls == 1

Handlers == 1..NumHandlers

PathNames == <<"/a", "", "/b", "/c", "/d">>

Paths == {PathNames[i] : i \in 1..NumPaths}

CountMax == 2^CountBits - 1

MaxCalls == CountMax + 1 + ExtraCalls

(* ------------------------------------------------------- Option<String> *)

None == <<>>

Some(s) == <<s>>

(* ------------------------------------------------------------ the record *)

\* LoggerState::new()
LoggerState_new ==
    [id |-> 0, path |-> None, previous_path |-> None,
     call_count |-> 0, active |-> FALSE]

\* the (path, previous_path, active) part of a record or of a response
Triple(r) == <<r.path, r.previous_path, r.active>>

\* Json(LoggingResponse { path: db.path.clone(), ... })
LoggingResponse_flip(d, st, msg) ==
    [path |-> d.previous_path, previous_path |-> d.path, active |-> d.active,
     request_status |-> st, request_message |-> msg]

LoggingResponse(d, st, msg) ==
    [path |-> d.path, previous_path |-> d.previous_path, active |-> d.active,
     request_status |-> st, request_message |-> msg]

\* the response slot of a handler that has built no response
NoResponse == LoggingResponse(LoggerState_new, FALSE, None)

(* ------------------------------------------------------ db.call_count += 1 *)

Overflows(d) == d.call_count = CountMax

\* the value stored by += 1: call_count is CountBits wide and a build
\* without overflow checks wraps
Incr(d) == [d EXCEPT !.call_count = (@ + 1) % (CountMax + 1)]

(* ------------------------------------------------------ handler conditions *)

\* start: Some(req.path.clone()) == db.path && db.active
AlreadyLogging_anypath(p, d) == d.active

AlreadyLogging_never(p, d) == FALSE

AlreadyLogging(p, d) == Some(p) = d.path /\ d.active

\* start: if ! db.path.is_none() { db.previous_path = db.path.clone(); }
KeepPrevious_always(d) == [d EXCEPT !.previous_path = d.path]

KeepPrevious(d) ==
    IF d.path # None THEN [d EXCEPT !.previous_path = d.path] ELSE d

\* stop: ! db.active
NotActive_never(d) == FALSE

NotActive(d) == ~ d.active

\* stop: db.previous_path = db.path.clone();
SavePrevious_skip(d) == d

SavePrevious(d) == [d EXCEPT !.previous_path = d.path]

\* status: if db.active { "Logging active" } else { "No logging active" }
StatusMessage(d) ==
    IF d.active THEN Some("Logging active") ELSE Some("No logging active")

(* --------------------------------------------------------- handler frames *)

\* the routes build_app mounts at "/" for the three handlers: #[get("/status")],
\* #[post("/start")], #[post("/stop")]
Routes ==
    {[method |-> "GET",  uri |-> "/status", handler |-> "status"],
     [method |-> "POST", uri |-> "/start",  handler |-> "start"],
     [method |-> "POST", uri |-> "/stop",   handler |-> "stop"]}

\* the request lines the clients send; the requests carry JSON, as the
\* routes' format = "json" asks
Methods == {"GET", "POST"}

Uris == {"/start", "/stop", "/status", "/logging/status"}

\* the handler Rocket's router picks for a request line, "none" when no
\* mounted route matches
Route(m, u) ==
    IF \E r \in Routes : r.method = m /\ r.uri = u
    THEN (CHOOSE r \in Routes : r.method = m /\ r.uri = u).handler
    ELSE "none"

\* the locals of a handler thread with no request
IdleFrame ==
    [pc |-> "idle", op |-> "none", req |-> "", status |-> FALSE,
     message |-> None, resp |-> NoResponse, method |-> "", uri |-> ""]

\* a request routed to a handler that has not yet called db.lock()
RequestFrame(o, p) ==
    LET r == CHOOSE r \in Routes : r.handler = o
    IN [IdleFrame EXCEPT !.pc = "lock", !.op = o, !.req = p,
                         !.method = r.method, !.uri = r.uri]

\* a request no route matches, on its way to the 404 catcher
NotFoundFrame(m, u) ==
    [IdleFrame EXCEPT !.pc = "404", !.method = m, !.uri = u]

\* the HTTP status of the answer a finished request gets: the handler's
\* Json is 200 OK, no route is 404, a panic is 500
HttpStatus(f) ==
    CASE f.pc = "ret"   -> 200
      [] f.pc = "404"   -> 404
      [] f.pc = "panic" -> 500

\* the JSON body of that answer
HttpBody(f) ==
    IF f.pc = "ret" THEN f.resp ELSE [error |-> HttpStatus(f)]

\* the frame right after db.lock().unwrap() returned the guard
EntryFrame(f) ==
    [f EXCEPT !.pc = CASE f.op = "start"  -> "s46"
                       [] f.op = "stop"   -> "p72"
                       [] f.op = "status" -> "q97"]

Final(f) == f.pc \in {"ret", "panic"}

InBody(f) == f.pc \notin {"idle", "lock", "ret", "panic", "404"}

Step(f, d) == [fr |-> f, db |-> d]

\* += 1 at program counter f.pc, continuing at nxt; chk: overflow checks on
AddOne(f, d, nxt, chk) ==
    IF Overflows(d) /\ chk
    THEN Step([f EXCEPT !.pc = "panic"], d)
    ELSE Step([f EXCEPT !.pc = nxt], Incr(d))

\* one statement of fn start, run on frame f and record d
start(f, d, chk) ==
    CASE f.pc = "s46" ->
           Step([f EXCEPT !.pc = "s48", !.status = TRUE,
                          !.message = Some("Logging started")], d)
      [] f.pc = "s48" -> AddOne(f, d, "s49", chk)
      [] f.pc = "s49" ->
           IF AlreadyLogging(f.req, d)
           THEN Step([f EXCEPT !.pc = "s59", !.status = FALSE,
                               !.message = Some("Already logging to this path")], d)
           ELSE Step([f EXCEPT !.pc = "s53"], d)
      [] f.pc = "s53" -> Step([f EXCEPT !.pc = "s54"], [d EXCEPT !.active = TRUE])
      [] f.pc = "s54" -> Step([f EXCEPT !.pc = "s57"], KeepPrevious(d))
      [] f.pc = "s57" -> Step([f EXCEPT !.pc = "s59"], [d EXCEPT !.path = Some(f.req)])
      [] f.pc = "s59" ->
           Step([f EXCEPT !.pc = "ret",
                          !.resp = LoggingResponse(d, f.status, f.message)], d)

\* fn stop without `db.path = None` (line 81)
stop_keeps_path(f, d, chk) ==
    CASE f.pc = "p72" ->
           Step([f EXCEPT !.pc = "p74", !.status = TRUE,
                          !.message = Some("Logging stopped")], d)
      [] f.pc = "p74" -> AddOne(f, d, "p75", chk)
      [] f.pc = "p75" ->
           IF NotActive(d)
           THEN Step([f EXCEPT !.pc = "p84", !.status = FALSE,
                               !.message = Some("No logging was active")], d)
           ELSE Step([f EXCEPT !.pc = "p79"], d)
      [] f.pc = "p79" -> Step([f EXCEPT !.pc = "p80"], [d EXCEPT !.active = TRUE])
      [] f.pc = "p80" -> Step([f EXCEPT !.pc = "p81"], SavePrevious(d))
      [] f.pc = "p81" -> Step([f EXCEPT !.pc = "p82"], d)
      [] f.pc = "p82" -> Step([f EXCEPT !.pc = "p84"], [d EXCEPT !.active = FALSE])
      [] f.pc = "p84" ->
           Step([f EXCEPT !.pc = "ret",
                          !.resp = LoggingResponse(d, f.status, f.message)], d)

\* fn stop without the final `db.active = false` (line 82)
stop_stays_active(f, d, chk) ==
    CASE f.pc = "p72" ->
           Step([f EXCEPT !.pc = "p74", !.status = TRUE,
                          !.message = Some("Logging stopped")], d)
      [] f.pc = "p74" -> AddOne(f, d, "p75", chk)
      [] f.pc = "p75" ->
           IF NotActive(d)
           THEN Step([f EXCEPT !.pc = "p84", !.status = FALSE,
                               !.message = Some("No logging was active")], d)
           ELSE Step([f EXCEPT !.pc = "p79"], d)
      [] f.pc = "p79" -> Step([f EXCEPT !.pc = "p80"], [d EXCEPT !.active = TRUE])
      [] f.pc = "p80" -> Step([f EXCEPT !.pc = "p81"], SavePrevious(d))
      [] f.pc = "p81" -> Step([f EXCEPT !.pc = "p82"], [d EXCEPT !.path = None])
      [] f.pc = "p82" -> Step([f EXCEPT !.pc = "p84"], d)
      [] f.pc = "p84" ->
           Step([f EXCEPT !.pc = "ret",
                          !.resp = LoggingResponse(d, f.status, f.message)], d)

\* one statement of fn stop
stop(f, d, chk) ==
    CASE f.pc = "p72" ->
           Step([f EXCEPT !.pc = "p74", !.status = TRUE,
                          !.message = Some("Logging stopped")], d)
      [] f.pc = "p74" -> AddOne(f, d, "p75", chk)
      [] f.pc = "p75" ->
           IF NotActive(d)
           THEN Step([f EXCEPT !.pc = "p84", !.status = FALSE,
                               !.message = Some("No logging was active")], d)
           ELSE Step([f EXCEPT !.pc = "p79"], d)
      [] f.pc = "p79" -> Step([f EXCEPT !.pc = "p80"], [d EXCEPT !.active = TRUE])
      [] f.pc = "p80" -> Step([f EXCEPT !.pc = "p81"], SavePrevious(d))
      [] f.pc = "p81" -> Step([f EXCEPT !.pc = "p82"], [d EXCEPT !.path = None])
      [] f.pc = "p82" -> Step([f EXCEPT !.pc = "p84"], [d EXCEPT !.active = FALSE])
      [] f.pc = "p84" ->
           Step([f EXCEPT !.pc = "ret",
                          !.resp = LoggingResponse(d, f.status, f.message)], d)

\* one statement of fn status
status(f, d, chk) ==
    CASE f.pc = "q97" ->
           Step([f EXCEPT !.pc = "q102", !.message = StatusMessage(d)], d)
      [] f.pc = "q102" -> AddOne(f, d, "q103", chk)
      [] f.pc = "q103" ->
           Step([f EXCEPT !.pc = "ret",
                          !.resp = LoggingResponse(d, TRUE, f.message)], d)

\* the next statement of whichever handler the frame belongs to
Body(f, d, chk) ==
    CASE f.op = "start"  -> start(f, d, chk)
      [] f.op = "stop"   -> stop(f, d, chk)
      [] f.op = "status" -> status(f, d, chk)

\* a handler run alone from the statement it stands at to its end
RECURSIVE Run(_, _, _)
Run(f, d, chk) ==
    IF Final(f) THEN Step(f, d)
    ELSE LET n == Body(f, d, chk) IN Run(n.fr, n.db, chk)

\* (f2, d2) lies on the path a handler run alone takes from (f, d)
RECURSIVE Reaches(_, _, _, _, _)
Reaches(f, d, f2, d2, chk) ==
    IF f = f2 /\ d = d2 THEN TRUE
    ELSE IF Final(f) THEN FALSE
    ELSE LET n == Body(f, d, chk) IN Reaches(n.fr, n.db, f2, d2, chk)

(* ------------------------------------------------------------------ state *)

VARIABLES
    db,               \* the LoggerState inside the Mutex
    holder,           \* the handler holding the MutexGuard, 0 when unlocked
    poisoned,         \* the Mutex's poison flag
    overflow_checks,  \* whether the build panics on integer overflow
    fr,               \* fr[h]: the locals and position of handler thread h
    pre,              \* pre[h]: the record h found when it took the lock
    seq,              \* the record of the handlers run one at a time, in lock order
    expect,           \* expect[h]: the final frame of h's call run alone on seq
    last,             \* the call that returned most recently and the record it left
    stopped,          \* Some(path a stop cleared) until the next start returns
    ncalls,           \* requests routed so far
    completed         \* calls that have returned a response

vars == <<db, holder, poisoned, overflow_checks, fr, pre, seq, expect, last,
          stopped, ncalls, completed>>

NoHandler == 0

NoCall == [op |-> "none", req |-> "", db |-> LoggerState_new]

Init ==
    /\ db = LoggerState_new
    /\ holder = NoHandler
    /\ poisoned = FALSE
    /\ overflow_checks \in BOOLEAN
    /\ fr = [h \in Handlers |-> IdleFrame]
    /\ pre = [h \in Handlers |-> LoggerState_new]
    /\ seq = LoggerState_new
    /\ expect = [h \in Handlers |-> IdleFrame]
    /\ last = NoCall
    /\ stopped = None
    /\ ncalls = 0
    /\ completed = 0

(* ---------------------------------------------------------------- actions *)

\* Mutex::lock blocks until no other thread holds the guard
CanLock_racy(h) == TRUE

CanLock(h) == holder = NoHandler

\* a request is routed to an idle thread: POST /start with a path
RequestStart(h, p) ==
    /\ Route("POST", "/start") = "start"
    /\ fr[h].pc = "idle"
    /\ ncalls < MaxCalls
    /\ fr' = [fr EXCEPT ![h] = RequestFrame("start", p)]
    /\ ncalls' = ncalls + 1
    /\ UNCHANGED <<db, holder, poisoned, overflow_checks, pre, seq, expect,
                   last, stopped, completed>>

\* POST /stop
RequestStop(h) ==
    /\ Route("POST", "/stop") = "stop"
    /\ fr[h].pc = "idle"
    /\ ncalls < MaxCalls
    /\ fr' = [fr EXCEPT ![h] = RequestFrame("stop", "")]
    /\ ncalls' = ncalls + 1
    /\ UNCHANGED <<db, holder, poisoned, overflow_checks, pre, seq, expect,
                   last, stopped, completed>>

\* GET /status
RequestStatus(h) ==
    /\ Route("GET", "/status") = "status"
    /\ fr[h].pc = "idle"
    /\ ncalls < MaxCalls
    /\ fr' = [fr EXCEPT ![h] = RequestFrame("status", "")]
    /\ ncalls' = ncalls + 1
    /\ UNCHANGED <<db, holder, poisoned, overflow_checks, pre, seq, expect,
                   last, stopped, completed>>

\* a request line no mounted route matches arrives at an idle thread
RequestOther(h, m, u) ==
    /\ Route(m, u) = "none"
    /\ fr[h].pc = "idle"
    /\ ncalls < MaxCalls
    /\ fr' = [fr EXCEPT ![h] = NotFoundFrame(m, u)]
    /\ ncalls' = ncalls + 1
    /\ UNCHANGED <<db, holder, poisoned, overflow_checks, pre, seq, expect,
                   last, stopped, completed>>

\* Rocket answers the unrouted request with its default 404 catcher
NotFound(h) ==
    /\ fr[h].pc = "404"
    /\ fr' = [fr EXCEPT ![h] = IdleFrame]
    /\ UNCHANGED <<db, holder, poisoned, overflow_checks, pre, seq, expect,
                   last, stopped, ncalls, completed>>

\* let mut db = db.lock().unwrap();  on a healthy Mutex
Lock(h) ==
    /\ fr[h].pc = "lock"
    /\ CanLock(h)
    /\ ~ poisoned
    /\ holder' = h
    /\ fr' = [fr EXCEPT ![h] = EntryFrame(@)]
    /\ pre' = [pre EXCEPT ![h] = db]
    /\ LET r == Run(EntryFrame(fr[h]), seq, overflow_checks)
       IN /\ seq' = r.db
          /\ expect' = [expect EXCEPT ![h] = r.fr]
    /\ UNCHANGED <<db, poisoned, overflow_checks, last, stopped, ncalls, completed>>

\* db.lock() with the poison ignored (as by PoisonError::into_inner)
LockPoisoned_recover(h) ==
    /\ fr[h].pc = "lock"
    /\ CanLock(h)
    /\ poisoned
    /\ holder' = h
    /\ fr' = [fr EXCEPT ![h] = EntryFrame(@)]
    /\ pre' = [pre EXCEPT ![h] = db]
    /\ LET r == Run(EntryFrame(fr[h]), seq, overflow_checks)
       IN /\ seq' = r.db
          /\ expect' = [expect EXCEPT ![h] = r.fr]
    /\ UNCHANGED <<db, poisoned, overflow_checks, last, stopped, ncalls, completed>>

\* db.lock() on a poisoned Mutex returns Err and unwrap() panics; the guard
\* inside the error is dropped at once
LockPoisoned(h) ==
    /\ fr[h].pc = "lock"
    /\ CanLock(h)
    /\ poisoned
    /\ fr' = [fr EXCEPT ![h].pc = "panic"]
    /\ pre' = [pre EXCEPT ![h] = db]
    /\ expect' = [expect EXCEPT ![h] = [fr[h] EXCEPT !.pc = "panic"]]
    /\ UNCHANGED <<db, holder, poisoned, overflow_checks, seq, last, stopped,
                   ncalls, completed>>

\* one statement of the handler body, under the guard; a panic unwinds,
\* dropping the guard, which poisons and unlocks the Mutex
Statement(h) ==
    /\ InBody(fr[h])
    /\ LET n == Body(fr[h], db, overflow_checks)
       IN /\ fr' = [fr EXCEPT ![h] = n.fr]
          /\ db' = n.db
          /\ IF n.fr.pc = "panic"
             THEN /\ poisoned' = TRUE
                  /\ holder' = IF holder = h THEN NoHandler ELSE holder
             ELSE UNCHANGED <<poisoned, holder>>
    /\ UNCHANGED <<overflow_checks, pre, seq, expect, last, stopped, ncalls,
                   completed>>

\* the handler returns its Json response; the guard is dropped
Return(h) ==
    /\ fr[h].pc = "ret"
    /\ holder' = IF holder = h THEN NoHandler ELSE holder
    /\ last' = [op |-> fr[h].op, req |-> fr[h].req, db |-> db]
    /\ stopped' = CASE fr[h].op = "stop" /\ fr[h].resp.request_status
                         -> Some(pre[h].path)
                    [] fr[h].op = "start" -> None
                    [] OTHER -> stopped
    /\ completed' = completed + 1
    /\ fr' = [fr EXCEPT ![h] = IdleFrame]
    /\ pre' = [pre EXCEPT ![h] = LoggerState_new]
    /\ expect' = [expect EXCEPT ![h] = IdleFrame]
    /\ UNCHANGED <<db, poisoned, overflow_checks, seq, ncalls>>

\* the panic of a handler ends its request without a response
Fault(h) ==
    /\ fr[h].pc = "panic"
    /\ fr' = [fr EXCEPT ![h] = IdleFrame]
    /\ pre' = [pre EXCEPT ![h] = LoggerState_new]
    /\ expect' = [expect EXCEPT ![h] = IdleFrame]
    /\ UNCHANGED <<db, holder, poisoned, overflow_checks, seq, last, stopped,
                   ncalls, completed>>

Next ==
    \/ \E h \in Handlers, p \in Paths : RequestStart(h, p)
    \/ \E h \in Handlers : RequestStop(h)
    \/ \E h \in Handlers : RequestStatus(h)
    \/ \E h \in Handlers : Lock(h)
    \/ \E h \in Handlers : LockPoisoned(h)
    \/ \E h \in Handlers : Statement(h)
    \/ \E h \in Handlers : Return(h)
    \/ \E h \in Handlers : Fault(h)

Spec == Init /\ [][Next]_vars

\* every thread that can run does run, and a thread blocked in lock() gets
\* the Mutex if it keeps becoming free; requests arrive or not as clients like
Fairness ==
    \A h \in Handlers :
        /\ WF_vars(Statement(h))
        /\ WF_vars(Return(h))
        /\ WF_vars(Fault(h))
        /\ SF_vars(Lock(h))
        /\ SF_vars(LockPoisoned(h))

SpecFair == Init /\ [][Next]_vars /\ Fairness

\* the server with clients that also send request lines other than the
\* three routes'
NextHttp ==
    \/ Next
    \/ \E h \in Handlers, m \in Methods, u \in Uris : RequestOther(h, m, u)
    \/ \E h \in Handlers : NotFound(h)

SpecHttp == Init /\ [][NextHttp]_vars

(* ----------------------------------------------------------------- claims *)

\* handler h has built the response of a call to o and still holds the guard
AtRet(h, o) == fr[h].pc = "ret" /\ fr[h].op = o

\* handler h is between db.lock() and the drop of its guard
InCS(h) == InBody(fr[h]) \/ fr[h].pc = "ret"

\* C1: a start(p) that does not find the session active on p ends with
\* path = p and active = true, previous_path equal to the path found if one
\* was present and otherwise unchanged, and answers success = true with
\* "Logging started".
C1_StartTransition ==
    \A h \in Handlers :
        (AtRet(h, "start") /\ ~ (pre[h].active /\ pre[h].path = Some(fr[h].req)))
        => /\ db.path = Some(fr[h].req)
           /\ db.active
           /\ db.previous_path =
                  (IF pre[h].path # None THEN pre[h].path ELSE pre[h].previous_path)
           /\ fr[h].resp.request_status = TRUE
           /\ fr[h].resp.request_message = Some("Logging started")

\* a start after a stop: no path is present, and the previous path the stop
\* left is kept
C1_Witness ==
    \E h \in Handlers :
        /\ AtRet(h, "start")
        /\ pre[h].path = None
        /\ pre[h].previous_path # None
        /\ db.previous_path = pre[h].previous_path
        /\ db.path = Some(fr[h].req)

\* C2: a start(p) that finds the session active on p changes none of path,
\* previous_path, active and answers success = false with "Already logging
\* to this path"; the second of two consecutive start(p) calls answers
\* success = false and leaves the triple as the first left it.
C2_StartIdempotent ==
    \A h \in Handlers :
        /\ (AtRet(h, "start") /\ pre[h].active /\ pre[h].path = Some(fr[h].req))
           => /\ Triple(db) = Triple(pre[h])
              /\ fr[h].resp.request_status = FALSE
              /\ fr[h].resp.request_message = Some("Already logging to this path")
        /\ (AtRet(h, "start") /\ last.op = "start" /\ last.req = fr[h].req)
           => /\ fr[h].resp.request_status = FALSE
              /\ Triple(db) = Triple(last.db)

\* the second of two consecutive start(p), with a previous path in place
C2_Witness ==
    \E h \in Handlers :
        /\ AtRet(h, "start")
        /\ last.op = "start"
        /\ last.req = fr[h].req
        /\ db.previous_path # None
        /\ fr[h].resp.request_status = FALSE

\* C3: a stop() that finds the session active ends with previous_path equal
\* to the path found, path absent and active = false, and answers
\* success = true with "Logging stopped".
C3_StopTransition ==
    \A h \in Handlers :
        (AtRet(h, "stop") /\ pre[h].active)
        => /\ db.previous_path = pre[h].path
           /\ db.path = None
           /\ ~ db.active
           /\ fr[h].resp.request_status = TRUE
           /\ fr[h].resp.request_message = Some("Logging stopped")

\* a stop of an active session whose previous path differs from its path
C3_Witness ==
    \E h \in Handlers :
        /\ AtRet(h, "stop")
        /\ pre[h].active
        /\ pre[h].previous_path # None
        /\ pre[h].previous_path # pre[h].path
        /\ db.previous_path = pre[h].path

\* C4: a stop() that finds the session inactive leaves path, previous_path
\* and active (and id) as they were, changes call_count only, and answers
\* success = false with "No logging was active".
C4_StopInactive ==
    \A h \in Handlers :
        (AtRet(h, "stop") /\ ~ pre[h].active)
        => /\ db = [pre[h] EXCEPT !.call_count = db.call_count]
           /\ db.call_count # pre[h].call_count
           /\ fr[h].resp.request_status = FALSE
           /\ fr[h].resp.request_message = Some("No logging was active")

\* stop() as the first call on the freshly created record
C4_Witness ==
    \E h \in Handlers :
        /\ AtRet(h, "stop")
        /\ pre[h] = LoggerState_new
        /\ completed = 0
        /\ db.path = None
        /\ fr[h].resp.request_status = FALSE

\* C5: status() leaves path, previous_path and active as they were, raises
\* call_count by exactly 1, and answers success = true with "Logging active"
\* when active and "No logging active" when not.
C5_StatusPureRead ==
    \A h \in Handlers :
        AtRet(h, "status")
        => /\ Triple(db) = Triple(pre[h])
           /\ db.call_count = pre[h].call_count + 1
           /\ fr[h].resp.request_status = TRUE
           /\ fr[h].resp.request_message =
                  (IF db.active THEN Some("Logging active")
                                ELSE Some("No logging active"))

\* C6: whenever no call is inside a handler body, call_count equals the
\* number of calls that have returned, whatever their mix and branches and
\* whichever threads ran them.
C6_CountEqualsCalls ==
    holder = NoHandler => db.call_count = completed

\* C7: at most one handler is between db.lock() and the drop of its guard;
\* the record that handler works on is the one its own statements alone
\* produce from the record it found; its response carries the record its own
\* call ends with; and whenever the lock is free the record is the one the
\* last returned call left, never one in the middle of a read-modify-write.
C7_AtomicCriticalSection ==
    /\ Cardinality({h \in Handlers : InCS(h)}) <= 1
    /\ \A h \in Handlers :
           InCS(h)
           => /\ holder = h
              /\ Reaches(EntryFrame(RequestFrame(fr[h].op, fr[h].req)), pre[h],
                         fr[h], db, overflow_checks)
    /\ \A h \in Handlers :
           fr[h].pc = "ret"
           => Triple(fr[h].resp) =
                  Triple(Run(EntryFrame(RequestFrame(fr[h].op, fr[h].req)),
                             pre[h], overflow_checks).db)
    /\ holder = NoHandler => db = last.db

\* one handler stands between start's active = true and its update of path
\* while another has a request waiting for the lock
C7_Witness ==
    \E h, k \in Handlers :
        /\ h # k
        /\ fr[h].pc = "s54"
        /\ db.active
        /\ db.path = None
        /\ fr[k].pc = "lock"
        /\ fr[k].op = "status"

\* C8: the concurrent handlers behave as the same calls run one at a time in
\* the order they took the lock, a point between each call's request and its
\* return: every call ends (response or panic) as it does in that sequential
\* run, and whenever the lock is free the record is the sequential run's.
C8_Linearizable ==
    /\ \A h \in Handlers : Final(fr[h]) => fr[h] = expect[h]
    /\ \A h \in Handlers : fr[h].pc \in {"idle", "lock"} <=> expect[h] = IdleFrame
    /\ holder = NoHandler => db = seq

\* a call has returned after another thread's request was already waiting,
\* and that request now holds its response
C8_Witness ==
    \E h, k \in Handlers :
        /\ h # k
        /\ AtRet(h, "start")
        /\ last.op = "stop"
        /\ fr[k].pc = "lock"
        /\ completed >= 2
        /\ fr[h] = expect[h]

\* C9: the (path, previous_path, active) of every response equals the
\* record's at the end of that call's transition.
C9_ResponseIsPostState ==
    \A h \in Handlers : fr[h].pc = "ret" => Triple(fr[h].resp) = Triple(db)

\* a response carrying distinct present path and previous path, built while
\* another thread waits for the lock
C9_Witness ==
    \E h, k \in Handlers :
        /\ h # k
        /\ fr[h].pc = "ret"
        /\ fr[k].pc = "lock"
        /\ fr[h].resp.path # None
        /\ fr[h].resp.previous_path # None
        /\ fr[h].resp.path # fr[h].resp.previous_path

\* C10: start(a) directly followed by start(b), a # b, ends with path = b and
\* previous_path = a; a stop() that found the session active leaves
\* previous_path equal to the path it found, and that value stays until and
\* across the next start.
C10_PreviousPathTracking ==
    /\ \A h \in Handlers :
           (AtRet(h, "start") /\ last.op = "start" /\ last.req # fr[h].req)
           => /\ db.path = Some(fr[h].req)
              /\ db.previous_path = Some(last.req)
    /\ \A h \in Handlers :
           (AtRet(h, "stop") /\ pre[h].active) => db.previous_path = pre[h].path
    /\ \A h \in Handlers :
           (AtRet(h, "start") /\ stopped # None) => db.previous_path = stopped[1]
    /\ (holder = NoHandler /\ stopped # None) => db.previous_path = stopped[1]

\* a start returning after a stop that cleared a path which itself had
\* replaced another one
C10_Witness ==
    \E h \in Handlers :
        /\ AtRet(h, "start")
        /\ stopped # None
        /\ stopped[1] # None
        /\ pre[h].previous_path = stopped[1]
        /\ db.previous_path = stopped[1]
        /\ db.path # db.previous_path

\* the first call on the fresh record is returning
FirstCall(h) == completed = 0 /\ pre[h] = LoggerState_new

\* C11: on a fresh controller start(x), stop(), stop() answer in order
\* {path x, previous_path absent, active, success}; {path absent,
\* previous_path x, inactive, success}; {path absent, previous_path x,
\* inactive, no success, "No logging was active"}.
C11_EndToEnd ==
    \A h \in Handlers :
        /\ (AtRet(h, "start") /\ FirstCall(h))
           => fr[h].resp = LoggingResponse(
                  [path |-> Some(fr[h].req), previous_path |-> None,
                   active |-> TRUE],
                  TRUE, Some("Logging started"))
        /\ (AtRet(h, "stop") /\ completed = 1 /\ last.op = "start")
           => fr[h].resp = LoggingResponse(
                  [path |-> None, previous_path |-> Some(last.req),
                   active |-> FALSE],
                  TRUE, Some("Logging stopped"))
        /\ (AtRet(h, "stop") /\ completed = 2 /\ last.op = "stop"
                /\ stopped # None)
           => fr[h].resp = LoggingResponse(
                  [path |-> None, previous_path |-> stopped[1],
                   active |-> FALSE],
                  FALSE, Some("No logging was active"))

\* the third call of the scenario holds its response: the second call was
\* the stop that cleared the path the first call started
C11_Witness ==
    \E h \in Handlers :
        /\ AtRet(h, "stop")
        /\ completed = 2
        /\ last.op = "stop"
        /\ stopped # None
        /\ stopped[1] # None
        /\ fr[h].resp.previous_path = stopped[1]
        /\ fr[h].resp.request_status = FALSE

\* C12: call_count never decreases: every handler, from every record it can
\* find (the one holding the largest value included), leaves call_count at
\* least as large as it found it.
C12_CountMonotonic ==
    \A h \in Handlers : InCS(h) => db.call_count >= pre[h].call_count

\* active is false while a path is present
StalePath == ~ db.active /\ db.path # None

\* C13 as stated: some sequence of calls from the fresh record reaches a
\* state with active = false and path present.
C13_StaleReachable == <>StalePath

\* C13 amended: no state, inside or between the handlers, has active = false
\* and path present; a stop clears path before it clears active and a start
\* sets active before it sets path.
C13_NoStalePath == ~ StalePath

\* a stop has cleared the path of an active session and returned
C13_Witness ==
    /\ holder = NoHandler
    /\ stopped # None
    /\ stopped[1] # None
    /\ last.op = "stop"
    /\ ~ db.active
    /\ db.path = None
    /\ db.previous_path = stopped[1]

\* the request_message values the handlers assign
Messages ==
    {"Logging started", "Already logging to this path", "Logging stopped",
     "No logging was active", "Logging active", "No logging active"}

\* C14: every call that has taken a healthy lock ends by returning a
\* response that carries a success flag and one of the six messages, never
\* by a fault, whatever the record and the path (the empty string and the
\* current or previous path included).
C14_NoDomainFailure ==
    \A h \in Handlers :
        /\ InBody(fr[h]) => Run(fr[h], db, overflow_checks).fr.pc = "ret"
        /\ fr[h].pc = "ret"
           => /\ fr[h].resp.request_status \in BOOLEAN
              /\ fr[h].resp.request_message \in {Some(m) : m \in Messages}

\* C15: a call that finds the Mutex poisoned ends in a fault: it never enters
\* its body, builds no LoggingResponse and leaves the record as it is; and
\* the poison stays, so every later call faults the same way and none returns.
C15_PoisonEscalated ==
    [][ /\ poisoned => /\ poisoned'
                       /\ db' = db
                       /\ completed' = completed
                       /\ \A h \in Handlers :
                              fr[h].pc = "lock" => fr'[h].pc \in {"lock", "panic"}
        /\ poisoned' => \A h \in Handlers :
                            /\ ~ InCS(h)'
                            /\ fr'[h].pc = "panic" => fr'[h].resp = NoResponse
      ]_vars

\* a start call has faulted at lock() on the poisoned Mutex (its locals were
\* never assigned) after the call that poisoned it; the record is untouched
C15_Witness ==
    \E h \in Handlers :
        /\ poisoned
        /\ fr[h].pc = "panic"
        /\ fr[h].op = "start"
        /\ fr[h].message = None
        /\ fr[h] = expect[h]
        /\ db = seq
        /\ db.call_count = CountMax

\* handler h has a step it can take now: lock() when the Mutex is free, the
\* next statement of its body, its return, or the end of its panic
CanStep(h) ==
    \/ fr[h].pc = "lock" /\ CanLock(h)
    \/ InBody(fr[h])
    \/ Final(fr[h])
    \/ fr[h].pc = "404"

\* C16: every call runs to completion: no call ends without its response,
\* the handler holding the lock can always take its next step (it waits on
\* nothing), and while a call is pending some handler can step (no deadlock).
C16_RunsToCompletion ==
    /\ \A h \in Handlers : fr[h].pc # "panic"
    /\ \A h \in Handlers : InCS(h) => holder = h /\ CanStep(h)
    /\ (\E h \in Handlers : fr[h].pc # "idle")
       => \E h \in Handlers : CanStep(h)

\* what does hold: no deadlock, and the lock holder never waits
NoDeadlock ==
    /\ \A h \in Handlers : InCS(h) => holder = h /\ CanStep(h)
    /\ (\E h \in Handlers : fr[h].pc # "idle")
       => \E h \in Handlers : CanStep(h)

\* the body the test tests::status expects
BobBody == [name |-> "Bob", id |-> None]

\* handler thread h holds the answer to the request line m u
Answered(h, m, u) ==
    /\ fr[h].method = m
    /\ fr[h].uri = u
    /\ fr[h].pc \in {"ret", "404", "panic"}

\* C17: a POST to /logging/status is routed to a handler and answered with
\* status 200 OK and the body {"name":"Bob","id":null}.
C17_LoggingStatusRoute ==
    \A h \in Handlers :
        (fr[h].method = "POST" /\ fr[h].uri = "/logging/status")
        => /\ fr[h].op \in {r.handler : r \in Routes}
           /\ Answered(h, "POST", "/logging/status")
              => /\ HttpStatus(fr[h]) = 200
                 /\ HttpBody(fr[h]) = BobBody

\* C18: between operations an active session always has a path.
C18_ActiveHasPath ==
    holder = NoHandler => (db.active => db.path # None)

\* an active session on a path that replaced another one, with the lock free
C18_Witness ==
    /\ holder = NoHandler
    /\ last.op = "start"
    /\ db.active
    /\ db.path # None
    /\ db.previous_path # None
    /\ db.path # db.previous_path

\* C19: a start or stop answers success = true exactly when the triple
\* (path, previous_path, active) it leaves differs from the one it found.
C19_SuccessIffChanged ==
    \A h \in Handlers :
        (AtRet(h, "start") \/ AtRet(h, "stop"))
        => (fr[h].resp.request_status <=> Triple(db) # Triple(pre[h]))

\* a start that switches an active session to another path: active stays
\* true, path changes, success
C19_Witness ==
    \E h \in Handlers :
        /\ AtRet(h, "start")
        /\ pre[h].active
        /\ db.active
        /\ pre[h].path # db.path
        /\ fr[h].resp.request_status = TRUE

\* handler h never lost a previous_path it found
KeepsPrevious(h) ==
    (InCS(h) /\ pre[h].previous_path # None) => db.previous_path # None

\* C20 as stated: previous_path is never cleared, and a call that finds it
\* absent leaves it present exactly if it is a stop() on an active session
\* or a start on a record whose path is present.
C20_PreviousPathSetOnce ==
    \A h \in Handlers :
        /\ KeepsPrevious(h)
        /\ (fr[h].pc = "ret" /\ pre[h].previous_path = None)
           => (db.previous_path # None
               <=> \/ fr[h].op = "stop" /\ pre[h].active
                   \/ fr[h].op = "start" /\ pre[h].path # None)

\* C20 amended: the start has to ask for a path other than the current one;
\* a redundant start (same path, active) leaves previous_path absent.
C20_PreviousPathSetOnceAmended ==
    \A h \in Handlers :
        /\ KeepsPrevious(h)
        /\ (fr[h].pc = "ret" /\ pre[h].previous_path = None)
           => (db.previous_path # None
               <=> \/ fr[h].op = "stop" /\ pre[h].active
                   \/ /\ fr[h].op = "start"
                      /\ pre[h].path # None
                      /\ pre[h].path # Some(fr[h].req))

\* a redundant start on a record with a path and no previous path
C20_Witness ==
    \E h \in Handlers :
        /\ AtRet(h, "start")
        /\ pre[h].path = Some(fr[h].req)
        /\ pre[h].active
        /\ pre[h].previous_path = None
        /\ db.previous_path = None

====
